---- MODULE Spec2Model ----
(***************************************************************************)
(* Model of the redemption service (package redemption, second half of     *)
(* internal/auth/service.go) and of the loyalty service                    *)
(* (internal/loyalty/service.go) of go-loyalty-benefits.                   *)
(*                                                                         *)
(* Reading of the placeholders of the redemption service:                  *)
(*  - what a placeholder RETURNS is what its code returns                  *)
(*    (getRedemptionByKey: always an error; saveRedemption and             *)
(*    updateRedemption: nil without a database, an error with one);        *)
(*  - the EFFECT of a placeholder is the effect its log line announces     *)
(*    ("Would save redemption", "Would deduct %d points", "Would emit      *)
(*    ..."): the row written, the points moved, the event emitted;         *)
(*  - a collaborator call (catalog, ledger, partner gateway) may also      *)
(*    fail: the saga's error branches are code, and they are only entered  *)
(*    when the call named by the placeholder's TODO fails.                 *)
(***************************************************************************)
EXTENDS Integers, Sequences, FiniteSets, TLC

\* ------------------------------------------------------------------ bounds

MaxReq == 2
InitBalance == 1
MaxLReq == 2
LInitPoints == 2
MaxRuns == 2
MaxAReq == 3

Reqs == 1..MaxReq
Users == {"u1"}
Keys == {"k1", "k2"}

\* The request bodies tried: a request, the same key with other points,
\* another key, and one request for each way CreateRedemption's validation
\* rejects.
RequestInputs ==
    {[benefit |-> "b1", points |-> 1, key |-> "k1"],
     [benefit |-> "b1", points |-> 2, key |-> "k1"],
     [benefit |-> "b1", points |-> 1, key |-> "k2"]}
    \cup {[benefit |-> "", points |-> 1, key |-> "k1"],
          [benefit |-> "b1", points |-> 0, key |-> "k1"],
          [benefit |-> "b1", points |-> 1, key |-> ""]}

LReqs == 1..MaxLReq
AReqs == 1..MaxAReq
Emails == {"e1", "e2"}
LAmounts == {0, 1, 2}

\* ------------------------------------------------------------- data model

\* Redemption (struct): ID is the index of the record; UpdatedAt/CreatedAt
\* are left out, CompletedAt is kept as set / not set.
Redemption(u, b, p, k, st) ==
    [user |-> u, benefit |-> b, points |-> p, key |-> k, status |-> st,
     partnerRef |-> "", errMsg |-> "", completedAt |-> FALSE]

NoRec == Redemption("", "", 0, "", "none")

\* A response that carries no redemption id.
ResponseNoId(code, rid, st) == [code |-> code, rid |-> 0, status |-> st]

\* RedemptionResponse plus the HTTP status code.
Response(code, rid, st) == [code |-> code, rid |-> rid, status |-> st]

NoResp == Response(0, 0, "")

VARIABLES
    up,         \* the service process is running
    db,         \* Service.db: "nil" or "set"
    req,        \* req[i]: the i-th CreateRedemption request
    mem,        \* mem[i]: the *Redemption the handler built and the saga mutates
    store,      \* store[i]: the row of table redemptions written for mem[i]
    hist,       \* hist[i]: the statuses written to store[i], in order
    spc,        \* spc[i]: position of the saga goroutine of redemption i
    balance,    \* balance[u]: the user's points at the ledger
    deducted,   \* deducted[i]: deductions applied at the ledger for redemption i
    reversed,   \* reversed[i]: reversals applied at the ledger for redemption i
    revCalls,   \* revCalls[i]: calls of reversePointsDeduction for redemption i
    gwCalls,    \* gwCalls[i]: calls of the partner gateway for redemption i
    evCompleted,\* evCompleted[i]: redemption.completed events emitted for i
    evFailed,   \* evFailed[i]: redemption.failed events emitted for i
    lrow0,      \* lrow0[u]: the loyalty_users row of u at the start
    lrow,       \* lrow[u]: the loyalty_users row of u
    ltx,        \* ltx[j]: the loyalty_transactions row request j inserted
    lreq,       \* lreq[j]: the j-th request to the loyalty service
    errNoRows,  \* the error Scan returns for an empty result: sql's or pgx's
    users,      \* the rows of table users
    areq        \* areq[a]: the a-th Register request

rvars == <<up, db, req, mem, store, hist, spc, balance, deducted, reversed,
           revCalls, gwCalls, evCompleted, evFailed>>

lvars == <<lrow0, lrow, ltx, lreq>>

avars == <<errNoRows, users, areq>>

vars == <<rvars, lvars, avars>>

\* A request: its inputs, the handler's position and its answer. retryOf is
\* history: the redemption that had been answered for the same key when the
\* request arrived (0: none).
NoReq == [user |-> "", benefit |-> "", points |-> 0, key |-> "",
          pc |-> "none", resp |-> NoResp, retryOf |-> 0]

\* calculate_tier (loyalty_schema.sql).
calculate_tier(points) ==
    IF points >= 10000 THEN "Platinum"
    ELSE IF points >= 5000 THEN "Gold"
    ELSE IF points >= 1000 THEN "Silver"
    ELSE "Bronze"

\* A row of loyalty_users; the rows the schema inserts carry the tier of
\* their points.
LRow(points) == [exists |-> TRUE, points |-> points, tier |-> calculate_tier(points)]

NoLRow == [exists |-> FALSE, points |-> 0, tier |-> ""]

\* A request to the loyalty service: seen is user.Points as getUserByID
\* read it, code the HTTP status of the answer.
NoLReq == [kind |-> "none", user |-> "", amount |-> 0, pc |-> "none",
           seen |-> 0, code |-> 0]

\* A Register request: code is the HTTP status of the answer, stored tells
\* whether a user with the email was stored when the request arrived.
NoAReq == [email |-> "", pc |-> "none", code |-> 0, stored |-> FALSE]

\* A row of table users; init.sql inserts sample users (id 0 here).
UserRow(id, email) == [id |-> id, email |-> email]

SampleUsers == {UserRow(0, "e2")}

\* ------------------------------------------------------------------- Init

\* No Register request is served.
InitAuthIdle ==
    /\ errNoRows = "pgx"
    /\ users = SampleUsers
    /\ areq = [a \in AReqs |-> NoAReq]

\* NewService leaves db nil; SetDatabase (called before the server starts)
\* sets it.
InitRedemption ==
    /\ up = TRUE
    /\ req = [i \in Reqs |-> NoReq]
    /\ mem = [i \in Reqs |-> NoRec]
    /\ store = [i \in Reqs |-> NoRec]
    /\ hist = [i \in Reqs |-> <<>>]
    /\ spc = [i \in Reqs |-> "none"]
    /\ balance = [u \in Users |-> InitBalance]
    /\ deducted = [i \in Reqs |-> 0]
    /\ reversed = [i \in Reqs |-> 0]
    /\ revCalls = [i \in Reqs |-> 0]
    /\ gwCalls = [i \in Reqs |-> 0]
    /\ evCompleted = [i \in Reqs |-> 0]
    /\ evFailed = [i \in Reqs |-> 0]

InitLoyaltyTables ==
    /\ lrow = lrow0
    /\ ltx = [j \in LReqs |-> "none"]
    /\ lreq = [j \in LReqs |-> NoLReq]

\* The redemption service: NewService leaves db nil; SetDatabase (called
\* before the server starts) sets it.
Init ==
    /\ db \in {"nil", "set"}
    /\ InitRedemption
    /\ lrow0 = [u \in Users |-> LRow(LInitPoints)]
    /\ InitLoyaltyTables
    /\ InitAuthIdle

\* The loyalty service: a user has a loyalty_users row, or none yet.
InitLoyalty ==
    /\ db = "nil"
    /\ InitRedemption
    /\ lrow0 \in [Users -> {NoLRow, LRow(LInitPoints)}]
    /\ InitLoyaltyTables
    /\ InitAuthIdle

\* ------------------------------------------------- database placeholders

\* getRedemptionByKey: "not implemented" with and without a database; the
\* result is <<existing, err>>.
getRedemptionByKey(k) ==
    IF db = "nil" THEN [existing |-> 0, err |-> TRUE]
                  ELSE [existing |-> 0, err |-> TRUE]

\* saveRedemption / updateRedemption: TRUE when the call returns an error.
saveRedemptionErr == db # "nil"

updateRedemptionErr == db # "nil"

\* The row a successful save or update leaves in table redemptions.
Persist(i, r) ==
    /\ store' = [store EXCEPT ![i] = r]
    /\ hist' = [hist EXCEPT ![i] = Append(@, r.status)]

\* ------------------------------------------------------- CreateRedemption

FreeSlot(i) ==
    /\ req[i].pc = "none"
    /\ \A j \in Reqs : j < i => req[j].pc # "none"

\* The validation without the check of the Idempotency-Key header.
InvalidRequestKeyOptional(b, p, k) == b = "" \/ p <= 0

InvalidRequest(b, p, k) == b = "" \/ p <= 0 \/ k = ""

\* The accepted requests that carried key k and have been answered.
Answered(k) ==
    {j \in Reqs : req[j].pc = "done" /\ req[j].key = k /\ req[j].resp.code = 202}

Min(S) == CHOOSE x \in S : \A y \in S : x <= y

\* Lines 453-488: decode, validate, idempotency lookup.
CreateRedemptionBegin(i, u, b, p, k) ==
    /\ up
    /\ FreeSlot(i)
    /\ LET look == getRedemptionByKey(k)
           r0 == [NoReq EXCEPT !.user = u, !.benefit = b, !.points = p, !.key = k,
                               !.retryOf = IF Answered(k) = {} THEN 0
                                           ELSE Min(Answered(k))]
       IN  req' = [req EXCEPT ![i] =
              IF InvalidRequest(b, p, k)
              THEN [r0 EXCEPT !.pc = "done", !.resp = Response(400, 0, "")]
              ELSE IF ~look.err /\ look.existing # 0
              THEN [r0 EXCEPT !.pc = "done",
                       !.resp = Response(200, look.existing,
                                         store[look.existing].status)]
              ELSE [r0 EXCEPT !.pc = "save"]]
    /\ UNCHANGED <<up, db, mem, store, hist, spc, balance, deducted, reversed,
                   revCalls, gwCalls, evCompleted, evFailed>>
    /\ UNCHANGED <<lvars, avars>>

\* CreateRedemption that starts the saga whether the save failed or not.
CreateRedemptionSaveThenStart(i) ==
    /\ up
    /\ req[i].pc = "save"
    /\ LET r == Redemption(req[i].user, req[i].benefit, req[i].points,
                           req[i].key, "requested")
       IN  /\ req' = [req EXCEPT ![i].pc = "done",
                                 ![i].resp = IF saveRedemptionErr
                                             THEN Response(500, 0, "")
                                             ELSE Response(202, i, "requested")]
           /\ mem' = [mem EXCEPT ![i] = r]
           /\ IF saveRedemptionErr THEN UNCHANGED <<store, hist>> ELSE Persist(i, r)
           /\ spc' = [spc EXCEPT ![i] = "validate"]
    /\ UNCHANGED <<up, db, balance, deducted, reversed, revCalls, gwCalls,
                   evCompleted, evFailed>>
    /\ UNCHANGED <<lvars, avars>>

\* Lines 490-522: build the Redemption, save it, start the saga, answer 202.
CreateRedemptionSave(i) ==
    /\ up
    /\ req[i].pc = "save"
    /\ LET r == Redemption(req[i].user, req[i].benefit, req[i].points,
                           req[i].key, "requested")
       IN  IF saveRedemptionErr
           THEN /\ req' = [req EXCEPT ![i].pc = "done",
                                      ![i].resp = Response(500, 0, "")]
                /\ UNCHANGED <<mem, store, hist, spc>>
           ELSE /\ req' = [req EXCEPT ![i].pc = "done",
                                      ![i].resp = Response(202, i, "requested")]
                /\ mem' = [mem EXCEPT ![i] = r]
                /\ Persist(i, r)
                /\ spc' = [spc EXCEPT ![i] = "validate"]
    /\ UNCHANGED <<up, db, balance, deducted, reversed, revCalls, gwCalls,
                   evCompleted, evFailed>>
    /\ UNCHANGED <<lvars, avars>>


\* ------------------------------------------------ collaborator placeholders

\* Results of a collaborator call: the placeholder's own result (nil), or the
\* failure of the call its TODO names.
CallResults == {"ok", "error"}

\* validateBenefit, checkUserPoints: no comparison is made; nil unless the
\* call fails.
validateBenefitErr(res) == res = "error"

checkUserPointsErr(u, p, res) == res = "error"

\* deductPoints applied twice.
deductPointsTwice(i, res) ==
    IF res = "error"
    THEN UNCHANGED <<balance, deducted>>
    ELSE /\ balance' = [balance EXCEPT ![mem[i].user] = @ - 2 * mem[i].points]
         /\ deducted' = [deducted EXCEPT ![i] = @ + 2]

\* deductPoints: "Would deduct %d points from user %s".
deductPoints(i, res) ==
    IF res = "error"
    THEN UNCHANGED <<balance, deducted>>
    ELSE /\ balance' = [balance EXCEPT ![mem[i].user] = @ - mem[i].points]
         /\ deducted' = [deducted EXCEPT ![i] = @ + 1]

\* reversePointsDeduction: "Would reverse %d points deduction for user %s".
reversePointsDeduction(i, res) ==
    /\ revCalls' = [revCalls EXCEPT ![i] = @ + 1]
    /\ IF res = "error"
       THEN UNCHANGED <<balance, reversed>>
       ELSE /\ balance' = [balance EXCEPT ![mem[i].user] = @ + mem[i].points]
            /\ reversed' = [reversed EXCEPT ![i] = @ + 1]

\* callPartnerGateway: "VENDOR-" + 8 characters of a uuid.
callPartnerGateway(i) == gwCalls' = [gwCalls EXCEPT ![i] = @ + 1]

\* emitRedemptionCompletedEvent / emitRedemptionFailedEvent.
emitRedemptionCompletedEvent(i) ==
    evCompleted' = [evCompleted EXCEPT ![i] = @ + 1]

emitRedemptionFailedEvent(i) == evFailed' = [evFailed EXCEPT ![i] = @ + 1]

\* --------------------------------------------------- processRedemptionSaga

\* failRedemption that sets completed_at as well.
FailFieldsCompletedAt(r, msg) ==
    [r EXCEPT !.status = "failed", !.errMsg = msg, !.completedAt = TRUE]

\* failRedemption that leaves the status as it is.
FailFieldsKeepStatus(r, msg) == [r EXCEPT !.errMsg = msg]

\* failRedemption, lines 632-634: the fields set before the update.
FailFields(r, msg) == [r EXCEPT !.status = "failed", !.errMsg = msg]

\* The completion written as an intermediate status.
CompletedFieldsFulfilling(r) ==
    [r EXCEPT !.status = "fulfilling", !.partnerRef = "VENDOR"]

\* The completion that also clears the points of the record.
CompletedFieldsZeroPoints(r) ==
    [r EXCEPT !.status = "completed", !.partnerRef = "VENDOR",
              !.completedAt = TRUE, !.points = 0]

\* Lines 601-605: the fields set before the update.
CompletedFields(r) ==
    [r EXCEPT !.status = "completed", !.partnerRef = "VENDOR",
              !.completedAt = TRUE]

\* Step 1, lines 573-577.
SagaValidate(i, res) ==
    /\ up
    /\ spc[i] = "validate"
    /\ IF validateBenefitErr(res)
       THEN /\ mem' = [mem EXCEPT ![i] = FailFields(@, "benefit_error")]
            /\ spc' = [spc EXCEPT ![i] = "fail_update"]
       ELSE /\ spc' = [spc EXCEPT ![i] = "check"]
            /\ UNCHANGED mem
    /\ UNCHANGED <<up, db, req, store, hist, balance, deducted, reversed, revCalls,
                   gwCalls, evCompleted, evFailed>>
    /\ UNCHANGED <<lvars, avars>>

\* Step 2, lines 579-583.
SagaCheck(i, res) ==
    /\ up
    /\ spc[i] = "check"
    /\ IF checkUserPointsErr(mem[i].user, mem[i].points, res)
       THEN /\ mem' = [mem EXCEPT ![i] = FailFields(@, "points_check_error")]
            /\ spc' = [spc EXCEPT ![i] = "fail_update"]
       ELSE /\ spc' = [spc EXCEPT ![i] = "deduct"]
            /\ UNCHANGED mem
    /\ UNCHANGED <<up, db, req, store, hist, balance, deducted, reversed, revCalls,
                   gwCalls, evCompleted, evFailed>>
    /\ UNCHANGED <<lvars, avars>>

\* Step 3 with the compensation entered when the deduction fails.
SagaDeductThenReverse(i, res) ==
    /\ up
    /\ spc[i] = "deduct"
    /\ deductPoints(i, res)
    /\ spc' = [spc EXCEPT ![i] = IF res = "error" THEN "reverse" ELSE "fulfill"]
    /\ UNCHANGED <<up, db, req, mem, store, hist, reversed, revCalls, gwCalls,
                   evCompleted, evFailed>>
    /\ UNCHANGED <<lvars, avars>>

\* The completion event whose saga starts over.
SagaCompleteEmitRestart(i) ==
    /\ up
    /\ spc[i] = "complete_emit"
    /\ emitRedemptionCompletedEvent(i)
    /\ spc' = [spc EXCEPT ![i] = IF evCompleted[i] = 0 THEN "validate" ELSE "done"]
    /\ UNCHANGED <<up, db, req, mem, store, hist, balance, deducted, reversed,
                   revCalls, gwCalls, evFailed>>
    /\ UNCHANGED <<lvars, avars>>

\* Step 3, lines 585-589.
SagaDeduct(i, res) ==
    /\ up
    /\ spc[i] = "deduct"
    /\ deductPoints(i, res)
    /\ IF res = "error"
       THEN /\ mem' = [mem EXCEPT ![i] = FailFields(@, "deduct_error")]
            /\ spc' = [spc EXCEPT ![i] = "fail_update"]
       ELSE /\ spc' = [spc EXCEPT ![i] = "fulfill"]
            /\ UNCHANGED mem
    /\ UNCHANGED <<up, db, req, store, hist, reversed, revCalls, gwCalls,
                   evCompleted, evFailed>>
    /\ UNCHANGED <<lvars, avars>>

\* Step 4, lines 591-593, and step 5's assignments, lines 600-605.
SagaFulfill(i, res) ==
    /\ up
    /\ spc[i] = "fulfill"
    /\ callPartnerGateway(i)
    /\ IF res = "error"
       THEN /\ spc' = [spc EXCEPT ![i] = "reverse"]
            /\ UNCHANGED mem
       ELSE /\ mem' = [mem EXCEPT ![i] = CompletedFields(@)]
            /\ spc' = [spc EXCEPT ![i] = "complete_update"]
    /\ UNCHANGED <<up, db, req, store, hist, balance, deducted, reversed, revCalls,
                   evCompleted, evFailed>>
    /\ UNCHANGED <<lvars, avars>>

\* The gateway's failure handled without the reversal.
SagaReverseSkipped(i, res) ==
    /\ up
    /\ spc[i] = "reverse"
    /\ mem' = [mem EXCEPT ![i] = FailFields(@, "partner_error")]
    /\ spc' = [spc EXCEPT ![i] = "fail_update"]
    /\ UNCHANGED <<up, db, req, store, hist, balance, deducted, reversed, revCalls,
                   gwCalls, evCompleted, evFailed>>
    /\ UNCHANGED <<lvars, avars>>

\* Lines 594-596: the reversal, its result dropped, then failRedemption with
\* the gateway's error.
SagaReverse(i, res) ==
    /\ up
    /\ spc[i] = "reverse"
    /\ reversePointsDeduction(i, res)
    /\ mem' = [mem EXCEPT ![i] = FailFields(@, "partner_error")]
    /\ spc' = [spc EXCEPT ![i] = "fail_update"]
    /\ UNCHANGED <<up, db, req, store, hist, deducted, gwCalls, evCompleted,
                   evFailed>>
    /\ UNCHANGED <<lvars, avars>>

\* Lines 607-610: updateRedemption; an error is logged and the saga goes on.
SagaCompleteUpdate(i) ==
    /\ up
    /\ spc[i] = "complete_update"
    /\ IF updateRedemptionErr
       THEN UNCHANGED <<store, hist>>
       ELSE Persist(i, mem[i])
    /\ spc' = [spc EXCEPT ![i] = "complete_emit"]
    /\ UNCHANGED <<up, db, req, mem, balance, deducted, reversed, revCalls,
                   gwCalls, evCompleted, evFailed>>
    /\ UNCHANGED <<lvars, avars>>

\* Lines 612-627: the completion event.
SagaCompleteEmit(i) ==
    /\ up
    /\ spc[i] = "complete_emit"
    /\ emitRedemptionCompletedEvent(i)
    /\ spc' = [spc EXCEPT ![i] = "done"]
    /\ UNCHANGED <<up, db, req, mem, store, hist, balance, deducted, reversed,
                   revCalls, gwCalls, evFailed>>
    /\ UNCHANGED <<lvars, avars>>

\* failRedemption, lines 636-638.
SagaFailUpdate(i) ==
    /\ up
    /\ spc[i] = "fail_update"
    /\ IF updateRedemptionErr
       THEN UNCHANGED <<store, hist>>
       ELSE Persist(i, mem[i])
    /\ spc' = [spc EXCEPT ![i] = "fail_emit"]
    /\ UNCHANGED <<up, db, req, mem, balance, deducted, reversed, revCalls,
                   gwCalls, evCompleted, evFailed>>
    /\ UNCHANGED <<lvars, avars>>

\* failRedemption, lines 640-654.
SagaFailEmit(i) ==
    /\ up
    /\ spc[i] = "fail_emit"
    /\ emitRedemptionFailedEvent(i)
    /\ spc' = [spc EXCEPT ![i] = "done"]
    /\ UNCHANGED <<up, db, req, mem, store, hist, balance, deducted, reversed,
                   revCalls, gwCalls, evCompleted>>
    /\ UNCHANGED <<lvars, avars>>

\* ------------------------------------------------------------------ crash

Running(i) == spc[i] \notin {"none", "done"}

\* The process is killed: every handler and saga goroutine stops where it
\* is; the rows, the ledger and the emitted events stay.
Crash ==
    /\ up
    /\ \E i \in Reqs : Running(i) \/ req[i].pc = "save"
    /\ up' = FALSE
    /\ UNCHANGED <<db, req, mem, store, hist, spc, balance, deducted, reversed,
                   revCalls, gwCalls, evCompleted, evFailed>>
    /\ UNCHANGED <<lvars, avars>>

\* ------------------------------------------------------------ shorthands

Created(i) == mem[i] # NoRec

SamePayload(i, j) ==
    /\ req[i].user = req[j].user
    /\ req[i].benefit = req[j].benefit
    /\ req[i].points = req[j].points

ValidReq(j) == ~InvalidRequest(req[j].benefit, req[j].points, req[j].key)

SagaEnded(i) == spc[i] = "done"

\* The saga of i is not going to take another step.
Quiescent(i) == spc[i] = "done" \/ (~up /\ spc[i] # "none")

Terminal(st) == st \in {"completed", "failed"}

\* The points redemption i has taken from the ledger, net of reversals.
NetDeducted(i) == (deducted[i] - reversed[i]) * mem[i].points

RECURSIVE SumNet(_)
SumNet(S) ==
    IF S = {} THEN 0
    ELSE LET i == CHOOSE x \in S : TRUE IN NetDeducted(i) + SumNet(S \ {i})

\* ---------------------------------------------------------------- claims

\* C1: a retry with the same key and the same payload, sent after the first
\* call was answered, returns the first call's redemption id and creates no
\* second Redemption, starts no second saga and deducts no points.
C1_SequentialRetryIdempotent ==
    \A j \in Reqs :
        LET i == req[j].retryOf IN
        (i # 0 /\ ValidReq(j) /\ SamePayload(i, j) /\ req[j].pc = "done") =>
            /\ req[j].resp.rid = req[i].resp.rid
            /\ ~Created(j)
            /\ spc[j] = "none"
            /\ deducted[j] = 0

\* C2: of two concurrent requests with the same key and the same payload
\* exactly one creates the Redemption and starts a saga: one Redemption and
\* at most one deduction exist for the key.
C2_ConcurrentSameKeyOneWinner ==
    \A i, j \in Reqs :
        (/\ i < j
         /\ req[i].key = req[j].key
         /\ SamePayload(i, j)
         /\ req[j].retryOf = 0
         /\ req[i].pc = "done" /\ req[j].pc = "done"
         /\ req[i].resp.code = 202) =>
            /\ ~Created(j)
            /\ spc[j] = "none"
            /\ req[j].resp.rid = req[i].resp.rid
            /\ deducted[i] + deducted[j] <= 1

\* C3: a call with the key of an existing Redemption and a different payload
\* fails with IdempotencyConflict (409) and creates no Redemption, starts no
\* saga and deducts no points.
C3_DifferentPayloadConflict ==
    \A j \in Reqs :
        LET i == req[j].retryOf IN
        (i # 0 /\ ValidReq(j) /\ ~SamePayload(i, j) /\ req[j].pc = "done") =>
            /\ req[j].resp.code = 409
            /\ ~Created(j)
            /\ spc[j] = "none"
            /\ deducted[j] = 0

\* C4: a saga whose deduction succeeded and whose partner fulfillment failed
\* ends with status failed, the deduction reversed exactly once and exactly
\* one redemption.failed event.
C4_CompensationCorrect ==
    \A i \in Reqs :
        (SagaEnded(i) /\ deducted[i] = 1 /\ mem[i].errMsg = "partner_error") =>
            /\ store[i].status = "failed"
            /\ reversed[i] = 1
            /\ NetDeducted(i) = 0
            /\ evFailed[i] = 1
            /\ evCompleted[i] = 0

\* C5: a Redemption whose status is completed or failed, and whose saga takes
\* no further step, has exactly one event, of the type of its status; no
\* redemption has both a completed and a failed event.
C5_ExactlyOneTerminalEvent ==
    \A i \in Reqs :
        /\ ~(evCompleted[i] >= 1 /\ evFailed[i] >= 1)
        /\ (Quiescent(i) /\ store[i].status = "completed") =>
               (evCompleted[i] = 1 /\ evFailed[i] = 0)
        /\ (Quiescent(i) /\ store[i].status = "failed") =>
               (evFailed[i] = 1 /\ evCompleted[i] = 0)

\* C6: in every reachable state (between the two writes, after a crash
\* between them, after a failed updateRedemption) a completed/failed event of
\* a redemption exists if and only if the persisted status of the redemption
\* is the corresponding terminal status.
C6_StatusAndEventAtomic ==
    \A i \in Reqs :
        /\ (evCompleted[i] >= 1) <=> (store[i].status = "completed")
        /\ (evFailed[i] >= 1) <=> (store[i].status = "failed")

\* C7: a redemption that asks for more points than the user has (the balance
\* never exceeds InitBalance) deducts nothing, never calls the partner
\* gateway, and ends failed with an insufficient-balance error.
C7_InsufficientBalanceFails ==
    \A i \in Reqs :
        (Created(i) /\ mem[i].points > InitBalance) =>
            /\ deducted[i] = 0
            /\ gwCalls[i] = 0
            /\ SagaEnded(i) =>
                  (store[i].status = "failed" /\ store[i].errMsg = "points_check_error")

\* The ledger holds InitBalance less what the redemptions of the user have
\* taken and not given back.
LedgerMatchesCalls ==
    \A u \in Users :
        balance[u] = InitBalance - SumNet({i \in Reqs : Created(i) /\ mem[i].user = u})

SpecEdges ==
    {<<"none", "requested">>,
     <<"requested", "points_reserving">>, <<"requested", "failed">>,
     <<"points_reserving", "fulfilling">>, <<"points_reserving", "failed">>,
     <<"fulfilling", "completed">>, <<"fulfilling", "reversing">>,
     <<"reversing", "failed">>}

\* The status changes of processRedemptionSaga and failRedemption.
CodeEdges ==
    {<<"none", "requested">>, <<"requested", "completed">>,
     <<"requested", "failed">>}

StatusChangesWithin(edges) ==
    \A i \in Reqs :
        /\ store'[i].status # store[i].status =>
              <<store[i].status, store'[i].status>> \in edges
        /\ mem'[i].status # mem[i].status =>
              <<mem[i].status, mem'[i].status>> \in edges

TerminalIsFinal ==
    \A i \in Reqs :
        /\ Terminal(store[i].status) => store'[i] = store[i]
        /\ Terminal(mem[i].status) => mem'[i] = mem[i]

FreshKey(i) == \A j \in Reqs : j < i => req[j].key # req[i].key

\* Request i is answered in this step.
AnsweredNow(i) == req[i].pc # "done" /\ req'[i].pc = "done"

\* The answer of a valid request with a fresh key, given no saga step of its
\* redemption has been taken; a sent answer never changes.
AcceptedAtOnce(errorCodes) ==
    \A i \in Reqs :
        /\ (AnsweredNow(i) /\ ValidReq(i)' /\ FreshKey(i)') =>
              \/ /\ req'[i].resp.code = 202
                 /\ req'[i].resp.rid = i
                 /\ req'[i].resp.status = "requested"
                 /\ store'[i].status = "requested"
                 /\ spc'[i] = "validate"
              \/ /\ req'[i].resp.code \in errorCodes
                 /\ ~Created(i)' /\ spc'[i] = "none"
        /\ req[i].pc = "done" => req'[i] = req[i]

\* C11 as claimed: a valid request with a fresh key is answered 202 with the
\* new redemption id and status requested before any saga step, no saga
\* outcome changes the answer, and the only errors answered are
\* InvalidRequest (400) and IdempotencyConflict (409).
C11_AcceptedOrValidationError ==
    [][AcceptedAtOnce({400, 409})]_vars

\* C11 as amended: as claimed, with a third synchronous error: when
\* saveRedemption fails the request is answered 500 and no Redemption is
\* created and no saga started.
C11_AcceptedOrSaveError ==
    [][AcceptedAtOnce({400, 409, 500})]_vars

C11_Witness ==
    \E i \in Reqs :
        /\ ValidReq(i) /\ FreshKey(i)
        /\ req[i].resp.code = 202 /\ req[i].resp.rid = i
        /\ SagaEnded(i)
        /\ store[i].status = "failed"

\* C12: a request with an empty benefitID, points <= 0 or no idempotency key
\* is answered 400 by the handler itself, and no Redemption is created, no
\* saga started, no points deducted, no gateway called and no event emitted
\* for it.
C12_InvalidRequestRejected ==
    \A i \in Reqs :
        (/\ req[i].pc # "none"
         /\ (req[i].benefit = "" \/ req[i].points <= 0 \/ req[i].key = "")) =>
            /\ req[i].pc = "done"
            /\ req[i].resp = Response(400, 0, "")
            /\ ~Created(i) /\ store[i] = NoRec /\ hist[i] = <<>>
            /\ spc[i] = "none"
            /\ deducted[i] = 0 /\ gwCalls[i] = 0
            /\ evCompleted[i] = 0 /\ evFailed[i] = 0

C12_Witness ==
    \E i, j \in Reqs :
        /\ req[i].pc = "done" /\ req[i].key = "" /\ req[i].resp.code = 400
        /\ req[j].pc = "done" /\ req[j].resp.code = 202

\* C13: in every reachable state (a crash of the process can make any of them
\* final), a redemption whose points are deducted and not reversed has a
\* persisted status that records the deduction: it is not still requested.
C13_DeductionIsRecorded ==
    \A i \in Reqs :
        NetDeducted(i) > 0 => store[i].status # "requested"

\* C14: whatever the saga driver is invoked on again, points are deducted at
\* most once for a redemption, the partner gateway is called at most once,
\* and at most one terminal event is emitted.
C14_ReinvocationIsSafe ==
    \A i \in Reqs :
        /\ deducted[i] <= 1
        /\ gwCalls[i] <= 1
        /\ evCompleted[i] + evFailed[i] <= 1

\* A saga step whose collaborator call fails for the first time and which
\* goes to failRedemption (or to the compensation) without another call.
FailsOnFirstCall(i) ==
    \/ spc[i] \in {"validate", "check", "deduct"} /\ spc'[i] = "fail_update"
    \/ spc[i] = "fulfill" /\ gwCalls[i] = 0 /\ spc'[i] = "reverse"

\* C15: no saga step gives its redemption up on the first failure of its
\* collaborator call: the call is made again before the redemption fails.
C15_FailureIsRetried ==
    [][\A i \in Reqs : ~FailsOnFirstCall(i)]_vars

\* C16: a saga whose fulfillment failed after a deduction and whose reversal
\* failed too ends failed with an error other than the one of a failed
\* redemption whose reversal succeeded (the gateway's error): one that tells
\* the balance needs reconciliation.
C16_FailedReversalIsSurfaced ==
    \A i \in Reqs :
        (SagaEnded(i) /\ deducted[i] = 1 /\ revCalls[i] >= 1 /\ reversed[i] = 0) =>
            /\ store[i].status = "failed"
            /\ store[i].errMsg # "partner_error"

\* C17: the reversal is invoked for a redemption at most once, and only when
\* its deduction succeeded and its one gateway call failed (no partner
\* reference, never completed); a saga that failed at validation, at the
\* points check or at the deduction, or that completed, has no reversal.
C17_ReversalOnlyAfterFailedFulfillment ==
    \A i \in Reqs :
        /\ revCalls[i] <= 1
        /\ reversed[i] <= revCalls[i]
        /\ revCalls[i] = 1 =>
              /\ deducted[i] = 1 /\ gwCalls[i] = 1
              /\ mem[i].partnerRef = "" /\ mem[i].status # "completed"
              /\ evCompleted[i] = 0
              /\ spc[i] \in {"fail_update", "fail_emit", "done"}
        /\ spc[i] = "reverse" => (deducted[i] = 1 /\ gwCalls[i] = 1)
        /\ mem[i].errMsg \in {"benefit_error", "points_check_error", "deduct_error"}
              => revCalls[i] = 0
        /\ mem[i].status = "completed" => revCalls[i] = 0

C17_Witness ==
    \E i, j \in Reqs :
        /\ SagaEnded(i) /\ revCalls[i] = 1 /\ reversed[i] = 1
        /\ store[i].errMsg = "partner_error"
        /\ SagaEnded(j) /\ store[j].errMsg = "deduct_error" /\ revCalls[j] = 0

\* What belongs to redemption i: its record, its row and its calls.
Of(i) ==
    <<mem[i], store[i], hist[i], deducted[i], reversed[i], revCalls[i],
      gwCalls[i], evCompleted[i], evFailed[i]>>

\* C18: a saga is started on a Redemption once, in the step that creates it,
\* and every step that acts on a Redemption is the step of that saga: no
\* other request's handler or saga acts on it.
C18_OneSagaPerRedemption ==
    [][\A i \in Reqs :
          /\ (spc'[i] = "validate" /\ spc[i] # "validate") =>
                (spc[i] = "none" /\ ~Created(i) /\ Created(i)')
          /\ Of(i)' # Of(i) => spc'[i] # spc[i]
          /\ spc'[i] # spc[i] => \A j \in Reqs \ {i} : spc'[j] = spc[j]]_vars

C18_Witness ==
    \E i, j \in Reqs :
        /\ i # j /\ req[i].key = req[j].key
        /\ spc[i] = "fulfill" /\ spc[j] = "fulfill"

\* C19: in the record and in the row of a Redemption partner_ref is set only
\* when the gateway call succeeded and the status is completed, and
\* error_message is set only when the status is failed.
C19_PartnerRefAndErrorMessage ==
    \A i \in Reqs : \A r \in {mem[i], store[i]} :
        /\ r.partnerRef # "" => (r.status = "completed" /\ gwCalls[i] = 1)
        /\ r.completedAt => r.status = "completed"
        /\ r.errMsg # "" => r.status = "failed"

C19_Witness ==
    \E i, j \in Reqs :
        /\ store[i].status = "completed" /\ store[i].partnerRef # ""
        /\ store[j].status = "failed" /\ store[j].errMsg = "partner_error"

\* The fields of a Redemption that are fixed at creation (the id is the index).
Identity(r) == <<r.user, r.benefit, r.points, r.key>>

\* C20: once a Redemption is created no step changes its user_id,
\* benefit_id, points or idempotency_key, in the record or in the row; they
\* are those of the request.
C20_IdentityFieldsUnchanged ==
    [][\A i \in Reqs :
          /\ Created(i) => Identity(mem'[i]) = Identity(mem[i])
          /\ store[i] # NoRec => Identity(store'[i]) = Identity(store[i])
          /\ Created(i)' =>
                /\ Identity(mem'[i]) = <<req'[i].user, req'[i].benefit,
                                         req'[i].points, req'[i].key>>
                /\ Identity(store'[i]) = Identity(mem'[i])]_vars

C20_Witness ==
    \E i, j \in Reqs :
        /\ SagaEnded(i) /\ store[i].status = "completed" /\ store[i].points = 2
        /\ SagaEnded(j) /\ store[j].status = "failed" /\ store[j].key = "k2"

\* ------------------------------------------------------ claims C21 to C30

\* C21: every accepted redemption eventually has the persisted status
\* completed or failed while the process runs, also when a collaborator call
\* never returns.
C21_EventuallyTerminal ==
    \A i \in Reqs : [](Created(i) => <>(Terminal(store[i].status) \/ ~up))

\* C24: a saga runs only for a Redemption whose first row, with status
\* requested, was saved and whose request was answered 202; a request whose
\* save failed is answered 500 and has no Redemption, no row, no saga, no
\* deduction, no gateway call and no event.
C24_SagaOnlyAfterSave ==
    \A i \in Reqs :
        /\ spc[i] # "none" =>
              /\ store[i] # NoRec
              /\ Len(hist[i]) >= 1 /\ hist[i][1] = "requested"
              /\ req[i].resp.code = 202
              /\ db = "nil"
        /\ (req[i].pc = "done" /\ req[i].resp.code # 202) =>
              /\ ~Created(i) /\ store[i] = NoRec /\ spc[i] = "none"
              /\ deducted[i] = 0 /\ gwCalls[i] = 0
              /\ evCompleted[i] = 0 /\ evFailed[i] = 0
        /\ (db # "nil" /\ req[i].pc = "done" /\ ValidReq(i)) => req[i].resp.code = 500

C24_Witness ==
    \E i \in Reqs :
        /\ db = "set" /\ req[i].pc = "done" /\ ValidReq(i)
        /\ req[i].resp.code = 500 /\ spc[i] = "none"

\* C25 as claimed: in the record and in the row of a Redemption completed_at
\* is set exactly when the status is terminal, completed or failed.
C25_CompletedAtWhenTerminal ==
    \A i \in Reqs : \A r \in {mem[i], store[i]} :
        r.completedAt <=> Terminal(r.status)

\* C25 as amended: completed_at is set exactly when the status is completed;
\* it is unset in every non-terminal state and stays unset when the
\* redemption fails.
C25_CompletedAtWhenCompleted ==
    \A i \in Reqs : \A r \in {mem[i], store[i]} :
        r.completedAt <=> r.status = "completed"

C25_Witness ==
    \E i, j \in Reqs :
        /\ SagaEnded(i) /\ store[i].status = "completed" /\ store[i].completedAt
        /\ SagaEnded(j) /\ store[j].status = "failed" /\ ~store[j].completedAt

\* C28: a request whose idempotency lookup returned an error creates no
\* Redemption and starts no saga.
C28_LookupErrorCreatesNothing ==
    \A i \in Reqs :
        (req[i].pc # "none" /\ ValidReq(i) /\ getRedemptionByKey(req[i].key).err) =>
            (~Created(i) /\ store[i] = NoRec /\ spc[i] = "none")

\* C29: a redemption whose gateway call failed has no failed status, in the
\* record or in the row, and no redemption.failed event before the reversal
\* of its deduction has been attempted.
C29_ReversalBeforeFailure ==
    \A i \in Reqs :
        (/\ gwCalls[i] >= 1 /\ mem[i].status # "completed"
         /\ \/ mem[i].status = "failed"
            \/ store[i].status = "failed"
            \/ evFailed[i] >= 1) =>
            revCalls[i] = 1

C29_Witness ==
    \E i \in Reqs :
        /\ gwCalls[i] = 1 /\ evFailed[i] = 1 /\ store[i].status = "failed"
        /\ revCalls[i] = 1 /\ reversed[i] = 0

Next ==
    \/ \E i \in Reqs, u \in Users, in \in RequestInputs :
          CreateRedemptionBegin(i, u, in.benefit, in.points, in.key)
    \/ \E i \in Reqs : CreateRedemptionSave(i)
    \/ \E i \in Reqs, res \in CallResults : SagaValidate(i, res)
    \/ \E i \in Reqs, res \in CallResults : SagaCheck(i, res)
    \/ \E i \in Reqs, res \in CallResults : SagaDeduct(i, res)
    \/ \E i \in Reqs, res \in CallResults : SagaFulfill(i, res)
    \/ \E i \in Reqs, res \in CallResults : SagaReverse(i, res)
    \/ \E i \in Reqs : SagaCompleteUpdate(i)
    \/ \E i \in Reqs : SagaCompleteEmit(i)
    \/ \E i \in Reqs : SagaFailUpdate(i)
    \/ \E i \in Reqs : SagaFailEmit(i)
    \/ Crash

Spec == Init /\ [][Next]_vars

\* --------------------------------------------- collaborator calls may hang

\* The steps that call no collaborator: the goroutine takes them as soon as
\* it gets there. validateBenefit, checkUserPoints, deductPoints,
\* callPartnerGateway and reversePointsDeduction wait for another service,
\* without context, deadline or timer: their steps need not happen.
LocalStep(i) ==
    \/ CreateRedemptionSave(i)
    \/ SagaCompleteUpdate(i)
    \/ SagaCompleteEmit(i)
    \/ SagaFailUpdate(i)
    \/ SagaFailEmit(i)

SpecLive == Init /\ [][Next]_vars /\ \A i \in Reqs : WF_vars(LocalStep(i))

\* ------------------------------------------- the saga driver invoked again

\* processRedemptionSaga called again on the Redemption of an ended run: the
\* function tests no status, it starts at step 1.
SagaReinvoke(i) ==
    /\ up
    /\ spc[i] = "done"
    /\ evCompleted[i] + evFailed[i] < MaxRuns
    /\ spc' = [spc EXCEPT ![i] = "validate"]
    /\ UNCHANGED <<up, db, req, mem, store, hist, balance, deducted, reversed,
                   revCalls, gwCalls, evCompleted, evFailed>>
    /\ UNCHANGED <<lvars, avars>>

NextReinvoke ==
    \/ Next
    \/ \E i \in Reqs : SagaReinvoke(i)

SpecReinvoke == Init /\ [][NextReinvoke]_vars

\* -------------------------------------------------------- loyalty service

DbResults == {"ok", "error"}

LFreeSlot(j) ==
    /\ lreq[j].pc = "none"
    /\ \A h \in LReqs : h < j => lreq[h].pc # "none"

\* The UPDATE without the trigger update_loyalty_users_tier.
updateUserPointsNoTrigger(u, pointsChange) ==
    lrow' = [lrow EXCEPT ![u] =
               IF @.exists THEN [@ EXCEPT !.points = @ + pointsChange] ELSE @]

\* updateUserPoints: UPDATE loyalty_users SET points = points + $1; the
\* trigger update_loyalty_users_tier sets the tier of the new points.
updateUserPoints(u, pointsChange) ==
    lrow' = [lrow EXCEPT ![u] =
               IF @.exists
               THEN [@ EXCEPT !.points = @ + pointsChange,
                              !.tier = calculate_tier(lrow[u].points + pointsChange)]
               ELSE @]

\* SpendPoints, lines 194-215: decode and validate.
SpendPointsBegin(j, u, amount) ==
    /\ LFreeSlot(j)
    /\ lreq' = [lreq EXCEPT ![j] =
                  IF amount <= 0
                  THEN [NoLReq EXCEPT !.kind = "spend", !.user = u,
                                      !.amount = amount, !.pc = "done", !.code = 400]
                  ELSE [NoLReq EXCEPT !.kind = "spend", !.user = u,
                                      !.amount = amount, !.pc = "get"]]
    /\ UNCHANGED <<lrow0, lrow, ltx>>
    /\ UNCHANGED <<rvars, avars>>

\* The check of SpendPoints, lines 226-230, on the user getUserByID returned.
AfterGetUser(r, points) ==
    IF r.kind = "spend" /\ points < r.amount
    THEN [r EXCEPT !.seen = points, !.pc = "done", !.code = 400]
    ELSE [r EXCEPT !.seen = points, !.pc = IF r.kind = "earn" THEN "etx" ELSE "tx"]

\* getUserByID, lines 411-424: the first query; without a row the user is
\* auto-created (AuthMiddleware puts user_email into the context).
GetUserQuery(j) ==
    /\ lreq[j].pc = "get"
    /\ lreq' = [lreq EXCEPT ![j] =
                  IF lrow[@.user].exists
                  THEN AfterGetUser(@, lrow[@.user].points)
                  ELSE [@ EXCEPT !.pc = "create"]]
    /\ UNCHANGED <<lrow0, lrow, ltx>>
    /\ UNCHANGED <<rvars, avars>>

\* getUserByID, lines 425-429, and createLoyaltyUser: the INSERT fails when
\* the row exists by now (primary key).
GetUserCreate(j) ==
    /\ lreq[j].pc = "create"
    /\ IF lrow[lreq[j].user].exists
       THEN /\ lreq' = [lreq EXCEPT ![j].pc = "done", ![j].code = 500]
            /\ UNCHANGED lrow
       ELSE /\ lrow' = [lrow EXCEPT ![lreq[j].user] =
                          [exists |-> TRUE, points |-> 0, tier |-> "Bronze"]]
            /\ lreq' = [lreq EXCEPT ![j].pc = "requery"]
    /\ UNCHANGED <<lrow0, ltx>>
    /\ UNCHANGED <<rvars, avars>>

\* getUserByID, lines 431-442: the query of the row just created.
GetUserRequery(j) ==
    /\ lreq[j].pc = "requery"
    /\ lreq' = [lreq EXCEPT ![j] = AfterGetUser(@, lrow[@.user].points)]
    /\ UNCHANGED <<lrow0, lrow, ltx>>
    /\ UNCHANGED <<rvars, avars>>

\* SpendPoints, lines 232-249: createTransaction.
SpendCreateTransaction(j, res) ==
    /\ lreq[j].pc = "tx"
    /\ IF res = "error"
       THEN /\ lreq' = [lreq EXCEPT ![j].pc = "done", ![j].code = 500]
            /\ UNCHANGED ltx
       ELSE /\ ltx' = [ltx EXCEPT ![j] = lreq[j].kind]
            /\ lreq' = [lreq EXCEPT ![j].pc = "update"]
    /\ UNCHANGED <<lrow0, lrow>>
    /\ UNCHANGED <<rvars, avars>>

\* SpendPoints, lines 251-257: updateUserPoints(-amount).
SpendUpdateUserPoints(j, res) ==
    /\ lreq[j].pc = "update"
    /\ IF res = "error"
       THEN /\ lreq' = [lreq EXCEPT ![j].pc = "done", ![j].code = 500]
            /\ UNCHANGED lrow
       ELSE /\ updateUserPoints(lreq[j].user, 0 - lreq[j].amount)
            /\ lreq' = [lreq EXCEPT ![j].pc = "answer"]
    /\ UNCHANGED <<lrow0, ltx>>
    /\ UNCHANGED <<rvars, avars>>

\* SpendPoints, lines 259-277: the user is read again and the answer sent.
SpendAnswer(j) ==
    /\ lreq[j].pc = "answer"
    /\ lreq' = [lreq EXCEPT ![j].pc = "done", ![j].code = 200,
                            ![j].seen = lrow[lreq[j].user].points]
    /\ UNCHANGED <<lrow0, lrow, ltx>>
    /\ UNCHANGED <<rvars, avars>>

NextLoyalty ==
    \/ \E j \in LReqs, u \in Users, a \in LAmounts : SpendPointsBegin(j, u, a)
    \/ \E j \in LReqs : GetUserQuery(j)
    \/ \E j \in LReqs : GetUserCreate(j)
    \/ \E j \in LReqs : GetUserRequery(j)
    \/ \E j \in LReqs, res \in DbResults : SpendCreateTransaction(j, res)
    \/ \E j \in LReqs, res \in DbResults : SpendUpdateUserPoints(j, res)
    \/ \E j \in LReqs : SpendAnswer(j)

SpecLoyalty == InitLoyalty /\ [][NextLoyalty]_vars

\* ---------------------------------------------------------- EarnPoints

\* The points of the loyalty_users rows the tiers are tried on: below, at and
\* above each threshold of calculate_tier.
TierPoints == {0, 999, 1000, 4999, 5000, 9999, 10000}

\* The loyalty service with both operations: a user has no row, or a row on
\* either side of a tier threshold.
InitLedger ==
    /\ db = "nil"
    /\ InitRedemption
    /\ lrow0 \in [Users -> {NoLRow} \cup {LRow(p) : p \in TierPoints}]
    /\ InitLoyaltyTables
    /\ InitAuthIdle

\* EarnPoints, lines 112-133: decode and validate.
EarnPointsBegin(j, u, amount) ==
    /\ LFreeSlot(j)
    /\ lreq' = [lreq EXCEPT ![j] =
                  IF amount <= 0
                  THEN [NoLReq EXCEPT !.kind = "earn", !.user = u,
                                      !.amount = amount, !.pc = "done", !.code = 400]
                  ELSE [NoLReq EXCEPT !.kind = "earn", !.user = u,
                                      !.amount = amount, !.pc = "get"]]
    /\ UNCHANGED <<lrow0, lrow, ltx>>
    /\ UNCHANGED <<rvars, avars>>

\* EarnPoints, lines 144-161: createTransaction.
EarnCreateTransaction(j, res) ==
    /\ lreq[j].pc = "etx"
    /\ IF res = "error"
       THEN /\ lreq' = [lreq EXCEPT ![j].pc = "done", ![j].code = 500]
            /\ UNCHANGED ltx
       ELSE /\ ltx' = [ltx EXCEPT ![j] = lreq[j].kind]
            /\ lreq' = [lreq EXCEPT ![j].pc = "eupdate"]
    /\ UNCHANGED <<lrow0, lrow>>
    /\ UNCHANGED <<rvars, avars>>

\* EarnPoints, lines 163-169: updateUserPoints(+amount).
EarnUpdateUserPoints(j, res) ==
    /\ lreq[j].pc = "eupdate"
    /\ IF res = "error"
       THEN /\ lreq' = [lreq EXCEPT ![j].pc = "done", ![j].code = 500]
            /\ UNCHANGED lrow
       ELSE /\ updateUserPoints(lreq[j].user, lreq[j].amount)
            /\ lreq' = [lreq EXCEPT ![j].pc = "eanswer"]
    /\ UNCHANGED <<lrow0, ltx>>
    /\ UNCHANGED <<rvars, avars>>

\* EarnPoints, lines 171-190: the user is read again and the answer sent.
EarnAnswer(j) ==
    /\ lreq[j].pc = "eanswer"
    /\ lreq' = [lreq EXCEPT ![j].pc = "done", ![j].code = 201,
                            ![j].seen = lrow[lreq[j].user].points]
    /\ UNCHANGED <<lrow0, lrow, ltx>>
    /\ UNCHANGED <<rvars, avars>>

NextLedger ==
    \/ NextLoyalty
    \/ \E j \in LReqs, u \in Users, a \in LAmounts : EarnPointsBegin(j, u, a)
    \/ \E j \in LReqs, res \in DbResults : EarnCreateTransaction(j, res)
    \/ \E j \in LReqs, res \in DbResults : EarnUpdateUserPoints(j, res)
    \/ \E j \in LReqs : EarnAnswer(j)

SpecLedger == InitLedger /\ [][NextLedger]_vars

\* ------------------------------------------------- claims on the loyalty service

\* The spend requests of u that passed validation.
Spends(u) ==
    {j \in LReqs : lreq[j].kind = "spend" /\ lreq[j].user = u /\ lreq[j].amount > 0}

Orders(S) ==
    {f \in [1..Cardinality(S) -> S] : \A a, b \in DOMAIN f : a # b => f[a] # f[b]}

\* The first n requests of order run one after the other on the initial row.
RECURSIVE SeqRun(_, _, _)
SeqRun(u, order, n) ==
    IF n = 0 THEN [points |-> lrow0[u].points, accepted |-> {}]
    ELSE LET prev == SeqRun(u, order, n - 1)
             j == order[n]
         IN  IF prev.points >= lreq[j].amount
             THEN [points |-> prev.points - lreq[j].amount,
                   accepted |-> prev.accepted \cup {j}]
             ELSE prev

\* C8: when the spend requests of a user have all been answered (none with a
\* database error), the final balance and the set of accepted requests are
\* those of some sequential execution of the requests.
C8_SpendsSerializable ==
    \A u \in Users :
        (\A j \in Spends(u) : lreq[j].pc = "done" /\ lreq[j].code # 500) =>
            \E order \in Orders(Spends(u)) :
                LET run == SeqRun(u, order, Cardinality(Spends(u))) IN
                /\ run.points = lrow[u].points
                /\ run.accepted = {j \in Spends(u) : lreq[j].code = 200}

\* The tier the tier table gives to a number of points.
TierOfPoints(p) ==
    IF p >= 10000 THEN "Platinum"
    ELSE IF p >= 5000 THEN "Gold"
    ELSE IF p >= 1000 THEN "Silver"
    ELSE "Bronze"

\* C22: in every state reached by EarnPoints and SpendPoints requests the
\* tier of every loyalty_users row with points >= 0 is the tier of its
\* points (Bronze below 1000, Silver from 1000, Gold from 5000, Platinum
\* from 10000), the rows created by getUserByID included.
C22_TierMatchesPoints ==
    \A u \in Users :
        (lrow[u].exists /\ lrow[u].points >= 0) =>
            lrow[u].tier = TierOfPoints(lrow[u].points)

C22_Witness ==
    \E u \in Users :
        /\ lrow0[u].exists /\ lrow[u].tier # lrow0[u].tier
        /\ \E j \in LReqs : lreq[j].pc = "done" /\ lreq[j].code \in {200, 201}

\* ------------------------------------------------------------- Register

\* The auth service. getUserByEmail returns the error of pgx's Scan; Register
\* compares it with sql.ErrNoRows by !=. Which error value an empty result
\* gives is the library's, it is not in the source: both are tried.
InitAuth ==
    /\ db = "nil"
    /\ InitRedemption
    /\ lrow0 = [u \in Users |-> LRow(LInitPoints)]
    /\ InitLoyaltyTables
    /\ errNoRows \in {"sql", "pgx"}
    /\ users = SampleUsers
    /\ areq = [a \in AReqs |-> NoAReq]

AFreeSlot(a) ==
    /\ areq[a].pc = "none"
    /\ \A b \in AReqs : b < a => areq[b].pc # "none"

\* getUserByEmail: the rows with the email.
getUserByEmail(e) == {row \in users : row.email = e}

\* createUser without the UNIQUE constraint on users.email.
createUserNotUnique(a, e) ==
    /\ users' = users \cup {UserRow(a, e)}
    /\ areq' = [areq EXCEPT ![a].pc = "done", ![a].code = 201]

\* createUser: the INSERT fails on users.email UNIQUE (Register answers 500).
createUser(a, e) ==
    IF getUserByEmail(e) # {}
    THEN /\ areq' = [areq EXCEPT ![a].pc = "done", ![a].code = 500]
         /\ UNCHANGED users
    ELSE /\ users' = users \cup {UserRow(a, e)}
         /\ areq' = [areq EXCEPT ![a].pc = "done", ![a].code = 201]

\* Register, lines 90-103: decode and validate.
RegisterBegin(a, e) ==
    /\ AFreeSlot(a)
    /\ areq' = [areq EXCEPT ![a] =
                  IF e = ""
                  THEN [NoAReq EXCEPT !.pc = "done", !.code = 400]
                  ELSE [NoAReq EXCEPT !.email = e, !.pc = "lookup",
                                      !.stored = getUserByEmail(e) # {}]]
    /\ UNCHANGED <<errNoRows, users>>
    /\ UNCHANGED <<rvars, lvars>>

\* Register, lines 105-118: the lookup and its two tests.
RegisterLookup(a) ==
    /\ areq[a].pc = "lookup"
    /\ areq' = [areq EXCEPT ![a] =
                  IF getUserByEmail(@.email) # {}
                  THEN [@ EXCEPT !.pc = "done", !.code = 409]
                  ELSE IF errNoRows # "sql"
                  THEN [@ EXCEPT !.pc = "done", !.code = 500]
                  ELSE [@ EXCEPT !.pc = "create"]]
    /\ UNCHANGED <<errNoRows, users>>
    /\ UNCHANGED <<rvars, lvars>>

\* Register, lines 120-165: hash, createUser, token, answer.
RegisterCreate(a) ==
    /\ areq[a].pc = "create"
    /\ createUser(a, areq[a].email)
    /\ UNCHANGED errNoRows
    /\ UNCHANGED <<rvars, lvars>>

NextAuth ==
    \/ \E a \in AReqs, e \in Emails \cup {""} : RegisterBegin(a, e)
    \/ \E a \in AReqs : RegisterLookup(a)
    \/ \E a \in AReqs : RegisterCreate(a)

SpecAuth == InitAuth /\ [][NextAuth]_vars

C26_BalanceNeverNegative ==
    \A u \in Users : lrow[u].points >= 0

\* The amounts of the recorded transactions of kind k among requests S.
RECURSIVE SumTx(_, _)
SumTx(S, k) ==
    IF S = {} THEN 0
    ELSE LET j == CHOOSE x \in S : TRUE
         IN  (IF ltx[j] = k THEN lreq[j].amount ELSE 0) + SumTx(S \ {j}, k)

\* C27: when no request is in flight the points of every user are the
\* initial points plus the recorded earn transactions minus the recorded
\* spend transactions of the user.
C27_LedgerConservation ==
    (\A j \in LReqs : lreq[j].pc \in {"none", "done"}) =>
        \A u \in Users :
            LET mine == {j \in LReqs : lreq[j].user = u} IN
            lrow[u].points = lrow0[u].points + SumTx(mine, "earn") - SumTx(mine, "spend")

\* C30: every request of a user who had no loyalty_users row gets through
\* getUserByID (it is then answered 400, 0 points being too few, never 500),
\* and afterwards the user has one row with 0 points and tier Bronze.
C30_ConcurrentAutoCreate ==
    \A j \in LReqs :
        (/\ lreq[j].pc = "done" /\ lreq[j].kind = "spend" /\ lreq[j].amount > 0
         /\ ~lrow0[lreq[j].user].exists) =>
            /\ lreq[j].code = 400
            /\ lrow[lreq[j].user] = [exists |-> TRUE, points |-> 0, tier |-> "Bronze"]

====
